---------------------------- MODULE Spec2Model ----------------------------
(***************************************************************************)
(* Model of the signup / login flow of routes/auth.routes.js together with *)
(* the User schema (email setters, unique index, isLocked).                *)
(*                                                                         *)
(* The users collection is a sequence of documents; a document's _id is    *)
(* its index.  Each request slot carries one HTTP request through the      *)
(* promise chain of its handler: the synchronous validation, the           *)
(* User.findOne round trip and its .then callback, and the store           *)
(* operation the callback starts (User.create, or the user.save() that the *)
(* login handler neither awaits nor returns).  A callback runs to          *)
(* completion as one step and reads the clock once.                        *)
(***************************************************************************)
EXTENDS Integers, Sequences, FiniteSets, TLC

VARIABLES users, now, used, req, ghost

vars == <<users, now, used, req, ghost>>

---------------------------------------------------------------------------
(* Bounds of the model *)

MaxTicks == 2
MaxOverlaps == 1
MaxFaults == 1
MaxUsers == 2

(* Program constants *)

MAX_LOGIN_ATTEMPTS == 10
LOCK_TIME == 5 * 60 * 1000

(* The status the error-handling middleware gives an unknown error *)
ErrorHandlerStatus == 500

(* lockUntil: null (every Date of the model is >= 0) *)
Null == -1
Reqs == {"r1", "r2"}
TickSteps == {1, LOCK_TIME}

---------------------------------------------------------------------------
(* Strings the handlers inspect are sequences of characters *)

LowerChars == {"a", "b", "d", "g", "i", "l", "n", "o", "r", "s", "t", "x", "y", "h"}
UpperChars == {"A", "V", "W"}
DigitChars == {"1", "2"}
SymbolChars == {"@", "$", "!", "%", "*", "?", "&"}
SpaceChars == {" "}

E_empty == << >>
E_a == <<"a", "@", "x", ".", "i", "o">>
E_A == <<"A", "@", "x", ".", "i", "o">>
E_b == <<"b", "@", "x", ".", "i", "o">>
E_noTld == <<"b", "@", "x">>

P_empty == << >>
P_short == <<"s", "h", "o", "r", "t", "1", "!">>
P_valid == <<"V", "a", "l", "i", "d", "1", "!", "x">>
P_wrong == <<"W", "r", "o", "n", "g", "2", "?", "y">>

(* The request bodies the clients send *)
SignupBodies ==
    {[email |-> E_empty, password |-> P_valid, name |-> "Ana"],
     [email |-> E_a, password |-> P_empty, name |-> "Ana"],
     [email |-> E_a, password |-> P_valid, name |-> ""],
     [email |-> E_noTld, password |-> P_valid, name |-> "Ana"],
     [email |-> E_a, password |-> P_short, name |-> "Ana"],
     [email |-> E_a, password |-> P_valid, name |-> "Ana"],
     [email |-> E_A, password |-> P_valid, name |-> "Ana"],
     [email |-> E_b, password |-> P_valid, name |-> "Bea"]}

LoginBodies ==
    {[email |-> E_empty, password |-> P_valid],
     [email |-> E_a, password |-> P_empty],
     [email |-> E_noTld, password |-> P_wrong],
     [email |-> E_a, password |-> P_valid],
     [email |-> E_a, password |-> P_wrong],
     [email |-> E_A, password |-> P_valid],
     [email |-> E_A, password |-> P_wrong]}

(* String.prototype.toLowerCase, one character *)
toLowerCaseChar(c) ==
    CASE c = "A" -> "a"
      [] c = "V" -> "v"
      [] c = "W" -> "w"
      [] OTHER -> c

(* schema option lowercase: true *)
lowercase(s) == [i \in 1..Len(s) |-> toLowerCaseChar(s[i])]

RECURSIVE trimLeft(_)
trimLeft(s) == IF s # << >> /\ Head(s) \in SpaceChars THEN trimLeft(Tail(s)) ELSE s

RECURSIVE trimRight(_)
trimRight(s) ==
    IF s # << >> /\ s[Len(s)] \in SpaceChars
    THEN trimRight(SubSeq(s, 1, Len(s) - 1))
    ELSE s

(* schema option trim: true *)
trim(s) == trimRight(trimLeft(s))

(* The setters of the email path, applied when a document is built and    *)
(* when a query filter is cast.                                            *)
emailSetters(s) == trim(lowercase(s))

(* /^[^\s@]+@[^\s@]+\.[^\s@]{2,}$/ *)
emailRegexTest(s) ==
    \E i \in 1..Len(s) : \E j \in 1..Len(s) :
        /\ s[i] = "@"
        /\ s[j] = "."
        /\ i >= 2
        /\ j >= i + 2
        /\ Len(s) - j >= 2
        /\ \A k \in 1..Len(s) : k # i => s[k] \notin (SpaceChars \cup {"@"})

(* /^(?=.*[a-z])(?=.*[A-Z])(?=.*\d)(?=.*[@$!%*?&])[A-Za-z\d@$!%*?&]{8,}$/ *)
passwordRegexTest(s) ==
    /\ \E k \in 1..Len(s) : s[k] \in LowerChars
    /\ \E k \in 1..Len(s) : s[k] \in UpperChars
    /\ \E k \in 1..Len(s) : s[k] \in DigitChars
    /\ \E k \in 1..Len(s) : s[k] \in SymbolChars
    /\ \A k \in 1..Len(s) :
           s[k] \in (LowerChars \cup UpperChars \cup DigitChars \cup SymbolChars)
    /\ Len(s) >= 8

(* bcrypt: the hash is not the plaintext, and compares equal to it only *)
hashSync(password) == <<"$2b$10$">> \o password
compareSync(password, hash) == hash = hashSync(password)


---------------------------------------------------------------------------
(* The User schema *)

(* new User({email, password, name}): setters and defaults applied *)
NewUser(email, password, name) ==
    [email |-> emailSetters(email),
     password |-> password,
     name |-> name,
     failedLoginAttempts |-> 0,
     lockUntil |-> Null]

(* isLocked with the comparison turned round *)
isLocked_Reversed(user, t) == user.lockUntil # Null /\ user.lockUntil < t

(* userSchema.methods.isLocked, with t the value of Date.now() *)
isLocked(user, t) == user.lockUntil # Null /\ user.lockUntil > t

(* unique: true on email: the index refuses a second document with the key *)
DuplicateKey(coll, doc) == \E i \in 1..Len(coll) : coll[i].email = doc.email

(* What a query resolves to when no document matches (null) *)
NoUser ==
    [id |-> 0, email |-> << >>, password |-> << >>, name |-> "",
     failedLoginAttempts |-> 0, lockUntil |-> Null, mod |-> {}]

(* User.findOne({ email }): the filter is cast through the path's setters; *)
(* the result is the hydrated document (with its _id and no modified path) *)
(* or NoUser.                                                              *)
findOne(coll, email) ==
    LET hit == {i \in 1..Len(coll) : coll[i].email = emailSetters(email)}
    IN  IF hit = {} THEN NoUser
        ELSE LET i == CHOOSE k \in hit : \A m \in hit : k <= m
             IN  [id |-> i,
                  email |-> coll[i].email,
                  password |-> coll[i].password,
                  name |-> coll[i].name,
                  failedLoginAttempts |-> coll[i].failedLoginAttempts,
                  lockUntil |-> coll[i].lockUntil,
                  mod |-> {}]

(* user.<path> = v: the path is marked modified when the value changes *)
Assign(user, path, v) ==
    IF user[path] = v THEN user
    ELSE [user EXCEPT ![path] = v, !.mod = @ \cup {path}]

(* What user.save() writes once the store applies it: the modified paths *)
ApplySave(coll, user) ==
    [coll EXCEPT ![user.id] =
        [@ EXCEPT !.failedLoginAttempts =
                      IF "failedLoginAttempts" \in user.mod
                      THEN user.failedLoginAttempts ELSE @,
                  !.lockUntil =
                      IF "lockUntil" \in user.mod THEN user.lockUntil ELSE @]]

---------------------------------------------------------------------------
(* The response object *)

NoRes == [sent |-> FALSE, status |-> 0, key |-> "", val |-> "", threw |-> FALSE]

(* res.status(status).json({key: val}).  Once a response has been sent a   *)
(* second one throws ERR_HTTP_HEADERS_SENT and the client keeps the first. *)
Send(res, status, key, val) ==
    IF res.sent THEN [res EXCEPT !.threw = TRUE]
    ELSE [sent |-> TRUE, status |-> status, key |-> key, val |-> val, threw |-> FALSE]

(* The error-handling middleware that next(err) reaches: it answers 500    *)
(* unless a response has already been sent.                                *)
ErrorHandler(res) ==
    IF res.sent THEN res
    ELSE [sent |-> TRUE, status |-> ErrorHandlerStatus, key |-> "message",
          val |-> "Internal server error. Check the server console", threw |-> FALSE]

---------------------------------------------------------------------------
(* POST /auth/signup *)

(* The synchronous part of the handler: NoRes when the checks pass *)
SignupValidate(email, password, name) ==
    IF email = << >> \/ password = << >> \/ name = ""
    THEN Send(NoRes, 400, "message", "Provide email, password and name")
    ELSE IF ~emailRegexTest(email)
    THEN Send(NoRes, 400, "message", "Provide a valid email address.")
    ELSE IF ~passwordRegexTest(password)
    THEN Send(NoRes, 400, "message", "Password must have at least 8 characters and contain at least one number, one symbol, one lowercase and one uppercase letter.")
    ELSE NoRes

(* What the second .then callback receives when the first returned        *)
(* nothing (undefined)                                                     *)
NoDoc == NewUser(<< >>, << >>, "")

(* The first .then callback: user is what findOne resolved to *)
SignupThen(user, email, password, name) ==
    IF user # NoUser
    THEN [res |-> Send(NoRes, 400, "message", "User already exists."),
          create |-> FALSE, doc |-> NoDoc]
    ELSE [res |-> NoRes, create |-> TRUE,
          doc |-> NewUser(email, hashSync(password), name)]

(* The second .then callback: destructuring undefined throws *)
SignupCreated(res, createdUser) ==
    IF createdUser = NoDoc THEN [res EXCEPT !.threw = TRUE]
    ELSE Send(res, 201, "user", "created")

(* User.create(doc) at the store: rejected with a duplicate key error by   *)
(* the unique index, otherwise the document is inserted.                   *)
CreateRejected(coll, doc) == DuplicateKey(coll, doc)

---------------------------------------------------------------------------
(* POST /auth/login *)

LoginValidate(email, password) ==
    IF email = << >> \/ password = << >>
    THEN Send(NoRes, 400, "message", "Provide email and password.")
    ELSE NoRes

(* The stale-lock test of the callback, t the value of Date.now() *)
StaleLock(user, t) == user.lockUntil # Null /\ t > user.lockUntil

(* The stale-lock reset that clears the lock and keeps the counter *)
ResetStaleLock_KeepCounter(user, t) ==
    IF StaleLock(user, t) THEN Assign(user, "lockUntil", Null) ELSE user

ResetStaleLock(user, t) ==
    IF StaleLock(user, t)
    THEN Assign(Assign(user, "failedLoginAttempts", 0), "lockUntil", Null)
    ELSE user

(* The passwordCorrect branch without the reset of the counter *)
LoginMatch_KeepCounter(user) ==
    [res |-> Send(NoRes, 200, "authToken", "jwt"),
     user |-> Assign(user, "lockUntil", Null),
     saves |-> 1,
     path |-> "match"]

(* The passwordCorrect branch *)
LoginMatch(user) ==
    [res |-> Send(NoRes, 200, "authToken", "jwt"),
     user |-> Assign(Assign(user, "failedLoginAttempts", 0), "lockUntil", Null),
     saves |-> 1,
     path |-> "match"]

(* The else branch locking only above the threshold (> for >=) *)
LoginMismatch_OffByOne(user, t) ==
    LET r1 == Send(NoRes, 401, "message",
                   "Please try again, the email and password did not matched")
        u1 == Assign(user, "failedLoginAttempts", user.failedLoginAttempts + 1)
        u2 == IF u1.failedLoginAttempts > MAX_LOGIN_ATTEMPTS
              THEN Assign(u1, "lockUntil", t + LOCK_TIME)
              ELSE u1
        r2 == IF isLocked(u2, t)
              THEN Send(r1, 423, "message",
                        "Account locked due to too many failed login attempts. Please try again later.")
              ELSE Send(r1, 401, "message", "Invalid username or password")
    IN  [res |-> r2, user |-> u2, saves |-> 1, path |-> "mismatch"]

(* The else branch incrementing twice, once inside and once after the if *)
LoginMismatch_DoubleIncrement(user, t) ==
    LET r1 == Send(NoRes, 401, "message",
                   "Please try again, the email and password did not matched")
        u1 == Assign(user, "failedLoginAttempts", user.failedLoginAttempts + 2)
        u2 == IF u1.failedLoginAttempts >= MAX_LOGIN_ATTEMPTS
              THEN Assign(u1, "lockUntil", t + LOCK_TIME)
              ELSE u1
        r2 == IF isLocked(u2, t)
              THEN Send(r1, 423, "message",
                        "Account locked due to too many failed login attempts. Please try again later.")
              ELSE Send(r1, 401, "message", "Invalid username or password")
    IN  [res |-> r2, user |-> u2, saves |-> 1, path |-> "mismatch"]

(* The else branch answering a wrong password with 403 *)
LoginMismatch_Forbidden(user, t) ==
    LET r1 == Send(NoRes, 403, "message",
                   "Please try again, the email and password did not matched")
        u1 == Assign(user, "failedLoginAttempts", user.failedLoginAttempts + 1)
        u2 == IF u1.failedLoginAttempts >= MAX_LOGIN_ATTEMPTS
              THEN Assign(u1, "lockUntil", t + LOCK_TIME)
              ELSE u1
        r2 == IF isLocked(u2, t)
              THEN Send(r1, 423, "message",
                        "Account locked due to too many failed login attempts. Please try again later.")
              ELSE Send(r1, 401, "message", "Invalid username or password")
    IN  [res |-> r2, user |-> u2, saves |-> 1, path |-> "mismatch"]

(* The else branch and the statements after the if *)
LoginMismatch(user, t) ==
    LET r1 == Send(NoRes, 401, "message",
                   "Please try again, the email and password did not matched")
        u1 == Assign(user, "failedLoginAttempts", user.failedLoginAttempts + 1)
        u2 == IF u1.failedLoginAttempts >= MAX_LOGIN_ATTEMPTS
              THEN Assign(u1, "lockUntil", t + LOCK_TIME)
              ELSE u1
        r2 == IF isLocked(u2, t)
              THEN Send(r1, 423, "message",
                        "Account locked due to too many failed login attempts. Please try again later.")
              ELSE Send(r1, 401, "message", "Invalid username or password")
    IN  [res |-> r2, user |-> u2, saves |-> 1, path |-> "mismatch"]

(* The .then callback of the login handler *)
LoginThen(user, password, t) ==
    IF user = NoUser
    THEN [res |-> Send(NoRes, 401, "message", "User not found."),
          user |-> NoUser, saves |-> 0, path |-> "notfound"]
    ELSE IF isLocked(user, t)
    THEN [res |-> Send(NoRes, 423, "message", "Account locked. Please try again later."),
          user |-> user, saves |-> 0, path |-> "locked"]
    ELSE LET u == ResetStaleLock(user, t)
         IN  IF compareSync(password, u.password)
             THEN LoginMatch(u)
             ELSE LoginMismatch(u, t)


---------------------------------------------------------------------------
(* Request slots *)

Idle ==
    [kind |-> "none", pc |-> "idle", email |-> << >>, password |-> << >>,
     name |-> "", res |-> NoRes, nextErr |-> FALSE, path |-> "none",
     user |-> NoUser, doc |-> NoDoc, saves |-> 0,
     saved |-> "none", pwOk |-> FALSE]

(* The request is over: what stays is the response the route sent (res),  *)
(* whether the error went to next(err), and what became of the request;    *)
(* the handler's locals are gone.  path names the branch the handler took, *)
(* pwOk whether the password sent was the account's.                       *)
Finish(rec) ==
    [rec EXCEPT !.pc = "done", !.email = << >>, !.password = << >>, !.name = "",
                !.user = NoUser, !.doc = NoDoc]

(* What the client receives: the route's response, or the error handler's *)
Answer(rec) == IF rec.nextErr THEN ErrorHandler(rec.res) ELSE rec.res

Free(r) == req[r].pc \in {"idle", "done"}

(* Saturating history counters kept beside the program state *)
(* streak: wrong passwords compared for the account since a login last    *)
(* succeeded; matched: a login has succeeded for the account.              *)
GhostCap == MAX_LOGIN_ATTEMPTS + 2
Bump(n) == IF n < GhostCap THEN n + 1 ELSE n

NoGhost == [streak |-> 0, matched |-> FALSE]

Init ==
    /\ users = << >>
    /\ now = 0
    /\ used = [ticks |-> 0, overlaps |-> 0, faults |-> 0]
    /\ req = [r \in Reqs |-> Idle]
    /\ ghost = [i \in 1..MaxUsers |-> NoGhost]

(* A request is admitted.  One that arrives while another is still being  *)
(* handled (its save included) overlaps it.                                *)
Quiet == \A r \in Reqs : Free(r)

Admit ==
    IF Quiet THEN UNCHANGED used
    ELSE /\ used.overlaps < MaxOverlaps
         /\ used' = [used EXCEPT !.overlaps = @ + 1]

(* Time passes *)
Tick(d) ==
    /\ used.ticks < MaxTicks
    /\ now' = now + d
    /\ used' = [used EXCEPT !.ticks = @ + 1]
    /\ UNCHANGED <<users, req, ghost>>

(* A signup request arrives and runs up to User.findOne *)
SignupReceive(r, email, password, name) ==
    /\ Free(r)
    /\ LET v == SignupValidate(email, password, name)
           n == [Idle EXCEPT !.kind = "signup", !.email = email,
                             !.password = password, !.name = name,
                             !.res = v,
                             !.path = IF v.sent THEN "invalid" ELSE "none",
                             !.pc = "findOne"]
       IN  req' = [req EXCEPT ![r] = IF v.sent THEN Finish(n) ELSE n]
    /\ Admit
    /\ UNCHANGED <<users, now, ghost>>

(* findOne resolves and the first .then callback runs *)
SignupFindOne(r) ==
    /\ req[r].kind = "signup" /\ req[r].pc = "findOne"
    /\ LET o == SignupThen(findOne(users, req[r].email), req[r].email,
                           req[r].password, req[r].name)
           n == [req[r] EXCEPT !.res = o.res,
                               !.doc = o.doc,
                               !.path = IF o.create THEN "creating" ELSE "exists",
                               !.pc = "create"]
           e == [n EXCEPT !.res = SignupCreated(o.res, o.doc),
                          !.nextErr = SignupCreated(o.res, o.doc).threw]
       IN  req' = [req EXCEPT ![r] = IF o.create THEN n ELSE Finish(e)]
    /\ UNCHANGED <<users, now, used, ghost>>

(* User.create settles: the insert, then the second .then callback, or the *)
(* duplicate key error, then .catch                                        *)
SignupCreate(r) ==
    /\ req[r].kind = "signup" /\ req[r].pc = "create"
    /\ CreateRejected(users, req[r].doc) \/ Len(users) < MaxUsers
    /\ IF CreateRejected(users, req[r].doc)
       THEN /\ req' = [req EXCEPT ![r] =
                         Finish([@ EXCEPT !.nextErr = TRUE,
                                          !.path = "duplicate"])]
            /\ UNCHANGED users
       ELSE /\ users' = Append(users, req[r].doc)
            /\ req' = [req EXCEPT ![r] =
                         Finish([@ EXCEPT !.res = SignupCreated(@, req[r].doc),
                                          !.path = "created"])]
    /\ UNCHANGED <<now, used, ghost>>

(* A login request arrives and runs up to User.findOne *)
LoginReceive(r, email, password) ==
    /\ Free(r)
    /\ LET v == LoginValidate(email, password)
           n == [Idle EXCEPT !.kind = "login", !.email = email,
                             !.password = password,
                             !.res = v,
                             !.path = IF v.sent THEN "invalid" ELSE "none",
                             !.pc = "findOne"]
       IN  req' = [req EXCEPT ![r] = IF v.sent THEN Finish(n) ELSE n]
    /\ Admit
    /\ UNCHANGED <<users, now, ghost>>

(* findOne resolves and the .then callback runs; a thrown error goes to    *)
(* .catch; user.save() is left running                                     *)
LoginFindOne(r) ==
    /\ req[r].kind = "login" /\ req[r].pc = "findOne"
    /\ LET found == findOne(users, req[r].email)
           o == LoginThen(found, req[r].password, now)
           i == o.user.id
           n == [req[r] EXCEPT
                   !.res = o.res,
                   !.nextErr = o.res.threw,
                   !.user = o.user,
                   !.saves = o.saves,
                   !.path = o.path,
                   !.pwOk = found # NoUser /\ compareSync(req[r].password, found.password),
                   !.saved = IF o.saves > 0 THEN "pending" ELSE "none",
                   !.pc = "save"]
       IN  /\ req' = [req EXCEPT ![r] = IF o.saves > 0 THEN n ELSE Finish(n)]
           /\ ghost' = IF o.path = "mismatch"
                       THEN [ghost EXCEPT ![i].streak = Bump(@)]
                       ELSE IF o.path = "match"
                       THEN [ghost EXCEPT ![i].streak = 0, ![i].matched = TRUE]
                       ELSE ghost
    /\ UNCHANGED <<users, now, used>>

(* The store applies the update of a running user.save() *)
SaveLand(r) ==
    /\ req[r].pc = "save"
    /\ users' = ApplySave(users, req[r].user)
    /\ req' = [req EXCEPT ![r] = Finish([@ EXCEPT !.saved = "ok"])]
    /\ UNCHANGED <<now, used, ghost>>

(* The store fails an operation.  A failed findOne or create rejects the   *)
(* chain and reaches .catch; the promise of user.save() has no handler.    *)
(* A save with no modified path sends nothing to the store.                *)
StoreFail(r) ==
    /\ req[r].pc \in {"findOne", "create", "save"}
    /\ req[r].pc = "save" => req[r].user.mod # {}
    /\ used.faults < MaxFaults
    /\ used' = [used EXCEPT !.faults = @ + 1]
    /\ req' = [req EXCEPT ![r] =
                 IF req[r].pc = "save"
                 THEN Finish([@ EXCEPT !.saved = "failed"])
                 ELSE Finish([@ EXCEPT !.nextErr = TRUE,
                                       !.path = "storeError"])]
    /\ UNCHANGED <<users, now, ghost>>

Next ==
    \/ \E d \in TickSteps : Tick(d)
    \/ \E r \in Reqs : \E b \in SignupBodies : SignupReceive(r, b.email, b.password, b.name)
    \/ \E r \in Reqs : SignupFindOne(r)
    \/ \E r \in Reqs : SignupCreate(r)
    \/ \E r \in Reqs : \E b \in LoginBodies : LoginReceive(r, b.email, b.password)
    \/ \E r \in Reqs : LoginFindOne(r)
    \/ \E r \in Reqs : SaveLand(r)
    \/ \E r \in Reqs : StoreFail(r)

(* Every behaviour of the model within its bounds.  The three             *)
(* specifications below are restrictions of it; each property is stated    *)
(* for the one that holds the behaviours it is about.                      *)
Spec == Init /\ [][Next]_vars

(* One request at a time against a store that does not fail: a request is  *)
(* received only when every other one has run to the end, its save         *)
(* included.                                                               *)
SeqNext ==
    \/ \E d \in TickSteps : Tick(d)
    \/ \E r \in Reqs : \E b \in SignupBodies :
           Quiet /\ SignupReceive(r, b.email, b.password, b.name)
    \/ \E r \in Reqs : SignupFindOne(r)
    \/ \E r \in Reqs : SignupCreate(r)
    \/ \E r \in Reqs : \E b \in LoginBodies :
           Quiet /\ LoginReceive(r, b.email, b.password)
    \/ \E r \in Reqs : LoginFindOne(r)
    \/ \E r \in Reqs : SaveLand(r)

SeqSpec == Init /\ [][SeqNext]_vars

(* Requests that overlap, against a store that does not fail, within the   *)
(* lock time of the first lock                                             *)
RaceNext ==
    \/ \E r \in Reqs : \E b \in SignupBodies : SignupReceive(r, b.email, b.password, b.name)
    \/ \E r \in Reqs : SignupFindOne(r)
    \/ \E r \in Reqs : SignupCreate(r)
    \/ \E r \in Reqs : \E b \in LoginBodies : LoginReceive(r, b.email, b.password)
    \/ \E r \in Reqs : LoginFindOne(r)
    \/ \E r \in Reqs : SaveLand(r)

RaceSpec == Init /\ [][RaceNext]_vars

(* One request at a time against a store that can fail *)
FaultNext ==
    \/ \E r \in Reqs : \E b \in SignupBodies :
           Quiet /\ SignupReceive(r, b.email, b.password, b.name)
    \/ \E r \in Reqs : SignupFindOne(r)
    \/ \E r \in Reqs : SignupCreate(r)
    \/ \E r \in Reqs : \E b \in LoginBodies :
           Quiet /\ LoginReceive(r, b.email, b.password)
    \/ \E r \in Reqs : LoginFindOne(r)
    \/ \E r \in Reqs : SaveLand(r)
    \/ \E r \in Reqs : StoreFail(r)

FaultSpec == Init /\ [][FaultNext]_vars

---------------------------------------------------------------------------
(* Properties *)

(* The step in which the .then callback of login request r runs *)
LoginStep(r) ==
    /\ req[r].kind = "login"
    /\ req[r].pc = "findOne"
    /\ req'[r].pc # "findOne"
    /\ req'[r].path # "storeError"

(* The step in which the save of request r is applied *)
SaveStep(r) == req[r].pc = "save" /\ req'[r].pc = "done" /\ req'[r].saved = "ok"

Pending(i) == \E r \in Reqs : req[r].pc = "save" /\ req[r].user.id = i

(* C1: counting from an account with failedLoginAttempts = 0 and no lock,  *)
(* as long as the wrong passwords compared since then number at most       *)
(* MAX_LOGIN_ATTEMPTS the stored counter is that number and the lock is    *)
(* set exactly when it is MAX_LOGIN_ATTEMPTS; the 10th wrong password      *)
(* saves lockUntil = now + LOCK_TIME; and every login that then arrives    *)
(* before lockUntil is answered 423, whatever its password.                *)
C1_Counted ==
    \A i \in 1..Len(users) :
        (ghost[i].streak <= MAX_LOGIN_ATTEMPTS /\ ~Pending(i)) =>
            /\ users[i].failedLoginAttempts = ghost[i].streak
            /\ (users[i].lockUntil # Null) <=> (ghost[i].streak = MAX_LOGIN_ATTEMPTS)

C1_Step ==
    \A r \in Reqs : LoginStep(r) =>
        LET u == findOne(users, req[r].email)
        IN  u # NoUser =>
              /\ (ghost[u.id].streak = MAX_LOGIN_ATTEMPTS - 1
                    /\ ghost'[u.id].streak = MAX_LOGIN_ATTEMPTS) =>
                     /\ req'[r].pc = "save"
                     /\ req'[r].user.failedLoginAttempts = MAX_LOGIN_ATTEMPTS
                     /\ req'[r].user.lockUntil = now + LOCK_TIME
                     /\ req'[r].user.lockUntil > now
              /\ (ghost[u.id].streak = MAX_LOGIN_ATTEMPTS
                    /\ u.lockUntil # Null /\ now < u.lockUntil) =>
                     /\ req'[r].res.status = 423
                     /\ req'[r].pc = "done"
                     /\ users' = users

C1_LockedAfterMaxAttempts == []C1_Counted /\ [][C1_Step]_vars

(* Ten wrong passwords were compared, the lock is in force, and a login    *)
(* with the right password has been answered 423.                         *)
C1_Witness ==
    \E i \in 1..Len(users) : \E r \in Reqs :
        /\ ghost[i].streak = MAX_LOGIN_ATTEMPTS
        /\ users[i].lockUntil # Null /\ users[i].lockUntil > now
        /\ req[r].pc = "done" /\ req[r].path = "locked"
        /\ req[r].pwOk /\ req[r].res.status = 423

(* C2: a login answered 200 took the passwordCorrect branch, saves a       *)
(* document with failedLoginAttempts = 0 and lockUntil = null, and the     *)
(* stored account holds these values once the save is applied.             *)
C2_Answered ==
    \A r \in Reqs :
        (req[r].kind = "login" /\ req[r].res.status = 200) =>
            /\ req[r].path = "match"
            /\ req[r].pc = "save" =>
                 /\ req[r].user.failedLoginAttempts = 0
                 /\ req[r].user.lockUntil = Null

C2_Step ==
    \A r \in Reqs :
        (req[r].kind = "login" /\ req[r].res.status = 200 /\ SaveStep(r)) =>
            /\ users'[req[r].user.id].failedLoginAttempts = 0
            /\ users'[req[r].user.id].lockUntil = Null

C2_SuccessResets == []C2_Answered /\ [][C2_Step]_vars

(* A login was answered 200 on an account whose stored counter is not 0    *)
(* and whose lock has run out, and its save is about to be applied.        *)
C2_Witness ==
    \E r \in Reqs :
        /\ req[r].kind = "login" /\ req[r].res.status = 200 /\ req[r].pc = "save"
        /\ users[req[r].user.id].failedLoginAttempts > 0
        /\ users[req[r].user.id].lockUntil # Null

(* C3: a login on an account whose lockUntil is set and lockUntil <= now   *)
(* resets the counter and the lock before the password is compared: a      *)
(* wrong password leaves failedLoginAttempts = 1 and no lock, the right    *)
(* password is answered 200.                                               *)
C3_Step ==
    \A r \in Reqs : LoginStep(r) =>
        LET u == findOne(users, req[r].email)
        IN  (u # NoUser /\ u.lockUntil # Null /\ u.lockUntil <= now) =>
              IF compareSync(req[r].password, u.password)
              THEN req'[r].res.status = 200
              ELSE /\ req'[r].user.failedLoginAttempts = 1
                   /\ req'[r].user.lockUntil = Null

C3_ExpiredLockResets == [][C3_Step]_vars

(* C4: a login that finds the account locked (lockUntil set and            *)
(* lockUntil > now) ends with 423 on the locked branch, before the         *)
(* password is compared, starts no save and leaves the collection as it    *)
(* was.                                                                    *)
C4_Step ==
    \A r \in Reqs : LoginStep(r) =>
        LET u == findOne(users, req[r].email)
        IN  (u # NoUser /\ u.lockUntil # Null /\ u.lockUntil > now) =>
              /\ req'[r].res.status = 423
              /\ req'[r].path = "locked"
              /\ req'[r].pc = "done"
              /\ req'[r].saves = 0
              /\ req'[r].saved = "none"
              /\ users' = users

C4_LockedIsFrameOnly == [][C4_Step]_vars

(* A login with a wrong password has been answered on the locked branch    *)
(* while the lock is in force.                                             *)
C4_Witness ==
    \E r \in Reqs : \E i \in 1..Len(users) :
        /\ req[r].pc = "done" /\ req[r].path = "locked" /\ ~req[r].pwOk
        /\ req[r].res.status = 423 /\ req[r].saved = "none"
        /\ users[i].lockUntil # Null /\ users[i].lockUntil > now
        /\ now > 0

(* C5: a wrong password on an unlocked account is answered 423 when this   *)
(* attempt brings failedLoginAttempts to MAX_LOGIN_ATTEMPTS, 401           *)
(* otherwise.                                                              *)
C5_ThresholdAnswered423 ==
    \A r \in Reqs :
        (req[r].kind = "login" /\ req[r].path = "mismatch" /\ req[r].pc = "save") =>
            req[r].res.status =
                IF req[r].user.failedLoginAttempts >= MAX_LOGIN_ATTEMPTS
                THEN 423 ELSE 401

(* C6: a signup that ends without creating an account because an account  *)
(* holds its email (case ignored) is answered by the route with the        *)
(* conflict response; and no two accounts hold the same email, case        *)
(* ignored.                                                                *)
UniqueEmails ==
    \A i, j \in 1..Len(users) :
        lowercase(users[i].email) = lowercase(users[j].email) => i = j

C6_DuplicateAnsweredConflict ==
    /\ UniqueEmails
    /\ \A r \in Reqs :
         (req[r].kind = "signup" /\ req[r].pc = "done"
            /\ req[r].path \in {"exists", "duplicate"}) =>
              /\ req[r].res.status = 400
              /\ req[r].res.val = "User already exists."

(* C7 as claimed: the answer to a login for an email without an account    *)
(* and the answer to a wrong password below the threshold are the same     *)
(* response.                                                               *)
C7_SameResponse ==
    \A r1, r2 \in Reqs :
        (/\ req[r1].kind = "login" /\ req[r1].path = "notfound"
         /\ req[r2].kind = "login" /\ req[r2].path = "mismatch" /\ req[r2].pc = "save"
         /\ req[r2].user.failedLoginAttempts < MAX_LOGIN_ATTEMPTS) =>
            /\ req[r1].res.status = req[r2].res.status
            /\ req[r1].res.key = req[r2].res.key
            /\ req[r1].res.val = req[r2].res.val

(* C7, amended: both are answered with status 401 (the bodies differ). *)
C7_SameStatus ==
    \A r1, r2 \in Reqs :
        (/\ req[r1].kind = "login" /\ req[r1].path = "notfound"
         /\ req[r2].kind = "login" /\ req[r2].path = "mismatch") =>
            /\ req[r1].res.status = 401
            /\ req[r2].res.status = 401

(* Both answers are there: one login for an unknown email, one wrong       *)
(* password below the threshold.                                           *)
C7_Witness ==
    \E r1, r2 \in Reqs :
        /\ req[r1].kind = "login" /\ req[r1].path = "notfound" /\ req[r1].pc = "done"
        /\ req[r2].kind = "login" /\ req[r2].path = "mismatch" /\ req[r2].pc = "save"
        /\ req[r2].user.failedLoginAttempts < MAX_LOGIN_ATTEMPTS

(* C8: a login whose save failed is answered 500 through the error         *)
(* handler, never 200 or 401.                                              *)
C8_SaveFailureAnswered500 ==
    \A r \in Reqs :
        (req[r].kind = "login" /\ req[r].saved = "failed") =>
            /\ req[r].nextErr
            /\ Answer(req[r]).status = ErrorHandlerStatus

(* C9 as claimed: a wrong password on an unlocked account saves, once, the *)
(* stored counter plus 1; lockUntil is now + LOCK_TIME when the new count  *)
(* is at least MAX_LOGIN_ATTEMPTS and the stored lockUntil otherwise.      *)
C9_ClaimedStep ==
    \A r \in Reqs : (LoginStep(r) /\ req'[r].path = "mismatch") =>
        LET u == findOne(users, req[r].email)
        IN  /\ req'[r].saves = 1
            /\ req'[r].user.failedLoginAttempts = u.failedLoginAttempts + 1
            /\ req'[r].user.lockUntil =
                   IF u.failedLoginAttempts + 1 >= MAX_LOGIN_ATTEMPTS
                   THEN now + LOCK_TIME ELSE u.lockUntil

C9_IncrementsStored == [][C9_ClaimedStep]_vars

(* C9, amended: the count saved is 1 more than the count after the         *)
(* stale-lock reset (0 when lockUntil is set and now > lockUntil, the      *)
(* stored count otherwise), in exactly one save; lockUntil is              *)
(* now + LOCK_TIME when the new count is at least MAX_LOGIN_ATTEMPTS, and  *)
(* otherwise null after a stale-lock reset and the stored lockUntil        *)
(* without one; the save, once applied, stores these two values.           *)
C9_AmendedStep ==
    \A r \in Reqs : (LoginStep(r) /\ req'[r].path = "mismatch") =>
        LET u == findOne(users, req[r].email)
            stale == u.lockUntil # Null /\ now > u.lockUntil
            base == IF stale THEN 0 ELSE u.failedLoginAttempts
        IN  /\ req'[r].saves = 1
            /\ req'[r].pc = "save"
            /\ req'[r].user.failedLoginAttempts = base + 1
            /\ req'[r].user.lockUntil =
                   IF base + 1 >= MAX_LOGIN_ATTEMPTS THEN now + LOCK_TIME
                   ELSE IF stale THEN Null ELSE u.lockUntil

C9_SaveStep ==
    \A r \in Reqs : (req[r].path = "mismatch" /\ SaveStep(r)) =>
        /\ users'[req[r].user.id].failedLoginAttempts = req[r].user.failedLoginAttempts
        /\ users'[req[r].user.id].lockUntil = req[r].user.lockUntil

C9_IncrementsAfterReset == [][C9_AmendedStep /\ C9_SaveStep]_vars

(* A wrong password on an account whose lock had run out: the stored       *)
(* counter is at the threshold and the count about to be saved is 1.       *)
C9_Witness ==
    \E r \in Reqs :
        /\ req[r].path = "mismatch" /\ req[r].pc = "save"
        /\ users[req[r].user.id].lockUntil # Null
        /\ users[req[r].user.id].lockUntil < now
        /\ users[req[r].user.id].failedLoginAttempts >= MAX_LOGIN_ATTEMPTS
        /\ req[r].user.failedLoginAttempts = 1
        /\ req[r].user.lockUntil = Null

(* C10: the stored counter never exceeds the number of wrong passwords     *)
(* compared (on an account no login has succeeded for), and it can stay    *)
(* below it: overlapping logins save the same count.                       *)
C10_NeverOvercounts ==
    \A i \in 1..Len(users) :
        (~ghost[i].matched /\ ghost[i].streak < GhostCap) =>
            users[i].failedLoginAttempts <= ghost[i].streak

(* More than MAX_LOGIN_ATTEMPTS wrong passwords were compared on an        *)
(* account before its lock was stored: after the last of them the counter  *)
(* is below their number.                                                  *)
C10_Witness ==
    \E i \in 1..Len(users) :
        /\ ~ghost[i].matched
        /\ ghost[i].streak = MAX_LOGIN_ATTEMPTS + 1
        /\ ~Pending(i)
        /\ users[i].failedLoginAttempts = MAX_LOGIN_ATTEMPTS

===========================================================================
